---- MODULE Spec2Model ----
(***************************************************************************)
(* Model of wdtools/gfp.py: the Generative Fitting Pipeline (class GFP).   *)
(*                                                                         *)
(* Units.  Teff is in K.  logg is in tenths of a dex (6.5 dex = 65).       *)
(* Wavelengths are in Angstrom.  Normalised fluxes are fixed-point with    *)
(* Milli = 1.0.  Floating-point values are extended numbers: a finite      *)
(* integer, +inf, -inf or NaN, combined with IEEE-754 rules.               *)
(***************************************************************************)
EXTENDS Integers, Sequences, FiniteSets, TLC

(***************************************************************************)
(* Extended (IEEE-like) numbers                                            *)
(***************************************************************************)
Fin(n) == [k |-> "fin", v |-> n]
NaN == [k |-> "nan", v |-> 0]
PInf == [k |-> "inf", v |-> 1]
NInf == [k |-> "inf", v |-> -1]

IsNan(a) == a.k = "nan"
IsFinite(a) == a.k = "fin"
IsInf(a) == a.k = "inf"

Sgn(n) == IF n > 0 THEN 1 ELSE IF n < 0 THEN -1 ELSE 0
Abs(n) == IF n < 0 THEN -n ELSE n
Inf(s) == IF s > 0 THEN PInf ELSE NInf

XNeg(a) == IF IsNan(a) THEN NaN ELSE [k |-> a.k, v |-> -a.v]

XAdd(a, b) ==
    IF IsNan(a) \/ IsNan(b) THEN NaN
    ELSE IF IsInf(a) /\ IsInf(b) THEN (IF a.v = b.v THEN a ELSE NaN)
    ELSE IF IsInf(a) THEN a
    ELSE IF IsInf(b) THEN b
    ELSE Fin(a.v + b.v)

XSub(a, b) == XAdd(a, XNeg(b))

XMul(a, b) ==
    IF IsNan(a) \/ IsNan(b) THEN NaN
    ELSE IF IsFinite(a) /\ IsFinite(b) THEN Fin(a.v * b.v)
    ELSE IF Sgn(a.v) * Sgn(b.v) = 0 THEN NaN
    ELSE Inf(Sgn(a.v) * Sgn(b.v))

\* a / b, the quotient kept as a fixed-point number with `scale` = 1.0
XDiv(a, b, scale) ==
    IF IsNan(a) \/ IsNan(b) THEN NaN
    ELSE IF IsInf(a) /\ IsInf(b) THEN NaN
    ELSE IF IsInf(a) THEN Inf(a.v * (IF b.v < 0 THEN -1 ELSE 1))
    ELSE IF IsInf(b) THEN Fin(0)
    ELSE IF b.v = 0 THEN (IF a.v = 0 THEN NaN ELSE Inf(Sgn(a.v)))
    ELSE Fin(Sgn(a.v) * Sgn(b.v) * ((Abs(a.v) * scale) \div Abs(b.v)))

\* a < b; every comparison with NaN is false
XLt(a, b) ==
    IF IsNan(a) \/ IsNan(b) THEN FALSE
    ELSE IF IsInf(a) /\ IsInf(b) THEN a.v < b.v
    ELSE IF IsInf(a) THEN a.v < 0
    ELSE IF IsInf(b) THEN b.v > 0
    ELSE a.v < b.v

XLe(a, b) == XLt(a, b) \/ (~IsNan(a) /\ a = b)

\* numpy's sum of an array of extended numbers, left to right
RECURSIVE XSum(_)
XSum(s) == IF s = <<>> THEN Fin(0) ELSE XAdd(s[1], XSum(Tail(s)))

(***************************************************************************)
(* Python array helpers                                                    *)
(***************************************************************************)
\* an array built once: the function is evaluated into a tuple
Arr(f) == f \o <<>>

\* the one element of a singleton
Only(S) == CHOOSE x \in S : TRUE

Min2(a, b) == IF a < b THEN a ELSE b
Max2(a, b) == IF a > b THEN a ELSE b

\* arr[mask]: numpy boolean indexing; the mask must have the array's length
RECURSIVE Select(_, _)
Select(arr, mask) ==
    IF arr = <<>> THEN <<>>
    ELSE (IF mask[1] THEN <<arr[1]>> ELSE <<>>) \o Select(Tail(arr), Tail(mask))

\* np.sum(mask): the number of True entries
RECURSIVE CountTrue(_)
CountTrue(mask) ==
    IF mask = <<>> THEN 0 ELSE (IF mask[1] THEN 1 ELSE 0) + CountTrue(Tail(mask))

\* bisect_left(a, x): the number of entries of the sorted a that are < x
RECURSIVE bisect_left(_, _)
bisect_left(a, x) ==
    IF a = <<>> THEN 0
    ELSE IF a[1] < x THEN 1 + bisect_left(Tail(a), x) ELSE 0

\* Python's a[lo:hi] with 0-based bounds: a negative bound counts from the
\* end, and both are clamped to the array
PyIndex(n, i) == IF i < 0 THEN Max2(n + i, 0) ELSE Min2(i, n)
PySlice(a, lo, hi) ==
    LET n == Len(a)
        l == PyIndex(n, lo)
        h == PyIndex(n, hi)
    IN IF l >= h THEN <<>> ELSE SubSeq(a, l + 1, h)

(***************************************************************************)
(* Fixed-point scales and model bounds                                     *)
(***************************************************************************)
\* 1.0 of a fixed-point quantity (scaled labels, activations, fluxes)
Milli == 10 * 100
\* 1.0 of an unnormalised flux
FluxOne == 10 * 10
\* 1.0 of a polynomial coefficient
CoefOne == 10000 * 10000

\* hidden width of the generator network (H_DA, scaled down)
H_DA == 2

(***************************************************************************)
(* The emulator's persisted state: wavelength grid, weights, scaling       *)
(***************************************************************************)
\* lamgrid['DA']: NLam nodes from LamMin, LamStep apart
LamMin == 3300
LamStep == 100
NLam == 43
lamgrid_DA == Arr([j \in 1..NLam |-> LamMin + (j - 1) * LamStep])
LamMax == lamgrid_DA[NLam]

\* spec_min, spec_max of DA_specsc.txt, in thousandths of a dex of log10 flux
spec_min == -200
spec_max == 1300

\* the loaded weights (DA_normNN.h5): fixed small integers, the same for
\* every fit
Wgt(layer, i, k) == ((layer + i + 2 * k) % 4) - 1
Bias(layer, i) == 100 * ((layer + i) % 3)

(***************************************************************************)
(* Label scaler                                                            *)
(***************************************************************************)
\* label_sc: Teff and logg to the [0,1] interval (Milli = 1), no clipping
label_sc(teff, logg) ==
    << ((teff - 5500) * Milli) \div (40000 - 5500),
       ((logg - 65) * Milli) \div (95 - 65) >>

\* inv_label_sc: back to physical units
inv_label_sc(label) ==
    << (label[1] * (40000 - 5500)) \div Milli + 5500,
       (label[2] * (95 - 65)) \div Milli + 65 >>

(***************************************************************************)
(* The generator network and the synthetic spectrum                        *)
(***************************************************************************)
relu(x) == IF x > 0 THEN x ELSE 0

RECURSIVE Dot(_, _, _, _)
\* sum over k = 1..n of Wgt(layer, i, k) * x[k]
Dot(layer, i, x, n) ==
    IF n = 0 THEN 0 ELSE Wgt(layer, i, n) * x[n] + Dot(layer, i, x, n - 1)

\* one Dense(H, relu) layer
Dense(layer, x) ==
    Arr([i \in 1..H_DA |->
            relu((Dot(layer, i, x, Len(x)) \div Len(x)) + Bias(layer, i))])

\* generator(H, n_pix).predict: 2 inputs, three relu layers, a linear output
\* of n_pix values; a finite value for every finite input
predict(label) ==
    LET y1 == Dense(1, label)
        y2 == Dense(2, y1)
        y3 == Dense(3, y2)
    IN Arr([j \in 1..NLam |->
              (Dot(3 + j, 1, y3, H_DA) \div (4 * H_DA)) + 400 + Bias(4, j)])

spec_sc(spec) == ((spec - spec_min) * Milli) \div (spec_max - spec_min)
inv_spec_sc(spec) == (spec * (spec_max - spec_min)) \div Milli + spec_min

\* 10**x for x in thousandths of a dex, the result with 100 = 1.0: a table
\* of 10**(r/10), interpolated, times the power of ten
Pow10Tab == <<100, 126, 158, 200, 251, 316, 398, 501, 631, 794, 1000>>
RECURSIVE IPow10(_)
IPow10(n) == IF n = 0 THEN 1 ELSE 10 * IPow10(n - 1)
Pow10(x) ==
    LET q == x \div Milli
        r == (x % Milli) \div 100
        f == x % 100
        m == Pow10Tab[r + 1] + ((Pow10Tab[r + 2] - Pow10Tab[r + 1]) * f) \div 100
    IN IF q >= 0 THEN m * IPow10(q) ELSE m \div IPow10(-q)

\* np.interp(x, xp, fp) on the emulator's grid: linear, end values held
InterpHold(x, fp) ==
    IF x <= LamMin THEN fp[1]
    ELSE IF x >= LamMax THEN fp[NLam]
    ELSE LET j == (x - LamMin) \div LamStep + 1
             d == x - lamgrid_DA[j]
         IN fp[j] + ((fp[j + 1] - fp[j]) * d) \div LamStep

\* SpecTools.doppler_shift(wl, fl, dv): resample the flux against the
\* velocity-shifted copy of the wavelength grid
speed_light == 299792458
speed_light_kms == speed_light \div Milli
doppler_shift(fl, dv) ==
    Arr([j \in 1..NLam |->
        InterpHold(lamgrid_DA[j] - (lamgrid_DA[j] * dv) \div speed_light_kms, fl)])

\* synth_spectrum_sampler(wl, teff, logg, rv): the spectrum on lamgrid; the
\* labels are scaled and evaluated whatever their values
synth_spectrum_sampler(teff, logg, rv) ==
    LET label == label_sc(teff, logg)
        raw == predict(label)
        synth == Arr([j \in 1..NLam |-> Pow10(inv_spec_sc(raw[j]))])
    IN doppler_shift(synth, rv)

(***************************************************************************)
(* spectrum_sampler                                                        *)
(***************************************************************************)
\* an operation's outcome: the value it returns, or an exception
Ok(v) == [raised |-> FALSE, val |-> v]
Raised == [raised |-> TRUE, val |-> <<>>]

\* scipy.ndimage.gaussian_filter1d(synth, self.resolution['DA']) for a
\* resolution of one grid pixel: the kernel in thousandths, mode 'reflect'
GaussKernel == <<54, 244, 404, 244, 54>>
Reflect(j, n) == IF j < 1 THEN 1 - j ELSE IF j > n THEN 2 * n + 1 - j ELSE j
gaussian_filter1d(a) ==
    LET n == Len(a)
    IN Arr([j \in 1..n |->
          ( GaussKernel[1] * a[Reflect(j - 2, n)]
          + GaussKernel[2] * a[Reflect(j - 1, n)]
          + GaussKernel[3] * a[j]
          + GaussKernel[4] * a[Reflect(j + 1, n)]
          + GaussKernel[5] * a[Reflect(j + 2, n)] ) \div Milli])

\* interp1d(lamgrid, synth, fill_value = nan, bounds_error = False)(w)
interp1d(w, fp) ==
    IF w < LamMin \/ w > LamMax THEN NaN
    ELSE IF w = LamMax THEN Fin(fp[NLam])
    ELSE LET j == (w - LamMin) \div LamStep + 1
             d == w - lamgrid_DA[j]
         IN Fin(fp[j] + ((fp[j + 1] - fp[j]) * d) \div LamStep)

\* np.median of an array of extended numbers: NaN if any entry is NaN
RECURSIVE InsertSorted(_, _)
InsertSorted(x, s) ==
    IF s = <<>> THEN <<x>>
    ELSE IF XLe(x, s[1]) THEN <<x>> \o s
    ELSE <<s[1]>> \o InsertSorted(x, Tail(s))
RECURSIVE SortX(_)
SortX(s) == IF s = <<>> THEN <<>> ELSE InsertSorted(s[1], SortX(Tail(s)))
median(a) ==
    IF a = <<>> \/ \E i \in 1..Len(a) : IsNan(a[i]) THEN NaN
    ELSE Only({ IF Len(a) % 2 = 1 THEN srt[(Len(a) + 1) \div 2]
                ELSE XDiv(XAdd(srt[Len(a) \div 2], srt[Len(a) \div 2 + 1]),
                          Fin(2), 1)
              : srt \in {SortX(a)} })

\* the nearest selected pixel at or below i (0 if none), at or above i
RECURSIVE KnotBelow(_, _)
KnotBelow(mask, i) ==
    IF i = 0 THEN 0 ELSE IF mask[i] THEN i ELSE KnotBelow(mask, i - 1)
RECURSIVE KnotAbove(_, _)
KnotAbove(mask, i) ==
    IF i > Len(mask) THEN 0 ELSE IF mask[i] THEN i ELSE KnotAbove(mask, i + 1)

\* splev(wl, splrep(wl[knots], y[knots], k = 3, s = 0)): the interpolating
\* spline through the selected pixels, evaluated on every pixel.  Between
\* knots the cubic is taken as the chord; outside them the end value holds.
\* With a non-finite ordinate the fitted coefficients are all NaN.
SplineThrough(wl, y, knots) ==
    IF \E i \in 1..Len(wl) : knots[i] /\ ~IsFinite(y[i])
    THEN Arr([i \in 1..Len(wl) |-> NaN])
    ELSE Arr([i \in 1..Len(wl) |->
            LET lo == KnotBelow(knots, i)
                hi == KnotAbove(knots, i)
            IN IF lo = i THEN y[i]
               ELSE IF lo = 0 THEN y[hi]
               ELSE IF hi = 0 THEN y[lo]
               ELSE Fin(y[lo].v + ((y[hi].v - y[lo].v) * (wl[i] - wl[lo]))
                                    \div (wl[hi] - wl[lo]))])

\* splrep needs more points than the degree k = 3
SplineDegree == 3

\* the argument 2*(wl - wl.min() / (wl.max())) - 1.0 at pixel i (Milli = 1.0):
\* the division binds before the subtraction
ChebArg(wl, i) == 2 * Milli * wl[i] - (2 * Milli * wl[1]) \div wl[Len(wl)] - Milli

\* the Chebyshev polynomial T_k(x), by its recurrence
RECURSIVE ChebT(_, _)
ChebT(k, x) ==
    IF k = 0 THEN Milli
    ELSE IF k = 1 THEN x
    ELSE (2 * x * ChebT(k - 1, x)) \div Milli - ChebT(k - 2, x)

\* chebval(x, c): the sum of c[k] * T_k(x), coefficients with CoefOne = 1.0,
\* the value with Milli = 1.0; a zero coefficient adds nothing
RECURSIVE ChebSum(_, _, _)
ChebSum(x, c, n) ==
    IF n = 0 THEN 0
    ELSE (IF c[n] = 0 THEN 0
          ELSE IF n = 1 THEN c[n] \div (CoefOne \div Milli)
          ELSE (c[n] * (ChebT(n - 1, x) \div Milli)) \div (CoefOne \div Milli))
         + ChebSum(x, c, n - 1)
chebval(wl, i, polyargs) == ChebSum(ChebArg(wl, i), polyargs, Len(polyargs))

\* a variant of the look-up that serves the DA grid under any key
lamgrid_any(specclass_now) == Ok(lamgrid_DA)

\* self.lamgrid[specclass] (likewise self.resolution, self.model): the
\* dictionaries hold the key 'DA' alone (lines 87-89).  A class is held as
\* the sequence of its '+'-separated names; another name is a KeyError, a
\* list of names a TypeError
lamgrid(specclass_now) ==
    IF specclass_now = <<"DA">> THEN Ok(lamgrid_DA) ELSE Raised

\* spectrum_sampler(wl, teff, logg, *polyargs) read with the engine's
\* cont_fixed, rv, contmask and specclass as they are when it runs
spectrum_sampler(wl, prms, cont_fixed_now, rv_now, contmask_now, specclass_now) ==
    LET rv_used == IF cont_fixed_now THEN rv_now ELSE 0
        synth0 == gaussian_filter1d(synth_spectrum_sampler(prms[1], prms[2], rv_used))
        synth1 == Arr([i \in 1..Len(wl) |-> interp1d(wl[i], synth0)])
        polyargs == SubSeq(prms, 3, Len(prms))
        Poly(sy) ==
            IF Len(polyargs) > 0
            THEN Arr([i \in 1..Len(wl) |->
                    XDiv(XMul(sy[i], Fin(chebval(wl, i, polyargs))), Fin(Milli), 1)])
            ELSE sy
    IN IF lamgrid(specclass_now).raised THEN Raised
       ELSE IF ~cont_fixed_now THEN Ok(Poly(synth1))
       ELSE IF Len(contmask_now) # Len(wl) THEN Raised
       ELSE IF CountTrue(contmask_now) <= SplineDegree THEN Raised
       ELSE LET med == median(Select(synth1, contmask_now))
                ynorm == Arr([i \in 1..Len(wl) |-> XDiv(synth1[i], med, Milli)])
                spl == SplineThrough(wl, ynorm, contmask_now)
                mod_smooth_cont ==
                    Arr([i \in 1..Len(wl) |-> XDiv(XMul(spl[i], med), Fin(Milli), 1)])
                synth2 == Arr([i \in 1..Len(wl) |->
                              XDiv(synth1[i], mod_smooth_cont[i], Milli)])
            IN Ok(Poly(synth2))

(***************************************************************************)
(* Line windows                                                            *)
(***************************************************************************)
\* centroid_dict and distance_dict, in hundredths of an Angstrom
centroid_dict ==
    [alpha |-> 656461, beta |-> 486268, gamma |-> 434168,
     delta |-> 410289, eps |-> 397120, h8 |-> 389012]
distance_dict ==
    [alpha |-> 25000, beta |-> 20000, gamma |-> 8500,
     delta |-> 7000, eps |-> 4500, h8 |-> 3500]
Centi == 10 * 10
DefaultLines == <<"alpha", "beta", "gamma", "delta", "eps", "h8">>

\* bisect_left(wl, c) for c in hundredths of an Angstrom
BisectCenti(wl, c) == bisect_left(Arr([i \in 1..Len(wl) |-> Centi * wl[i]]), c)

\* the loop over the lines: mask += (wl > c1) * (wl < c2)
InLine(w, line) ==
    /\ Centi * w > centroid_dict[line] - distance_dict[line]
    /\ Centi * w < centroid_dict[line] + distance_dict[line]
LineMask(wl, lines) ==
    Arr([i \in 1..Len(wl) |-> \E l \in 1..Len(lines) : InLine(wl[i], lines[l])])

\* edges.extend([c1, c2]) for each line in turn
RECURSIVE Edges(_)
Edges(lines) ==
    IF lines = <<>> THEN <<>>
    ELSE << centroid_dict[lines[1]] - distance_dict[lines[1]],
            centroid_dict[lines[1]] + distance_dict[lines[1]] >>
         \o Edges(Tail(lines))

\* breakpoints.extend([bisect_left(wl, c2), bisect_left(wl, c1)]) for each
\* line in turn
RECURSIVE Breakpoints(_, _)
Breakpoints(wl, lines) ==
    IF lines = <<>> THEN <<>>
    ELSE << BisectCenti(wl, centroid_dict[lines[1]] + distance_dict[lines[1]]),
            BisectCenti(wl, centroid_dict[lines[1]] - distance_dict[lines[1]]) >>
         \o Breakpoints(wl, Tail(lines))

Not(mask) == Arr([i \in 1..Len(mask) |-> ~mask[i]])

(***************************************************************************)
(* normalize_DA                                                            *)
(***************************************************************************)
\* RESTRICT TO NN DOMAIN: the slice bounds in1, in2
DomainLo(wl) == bisect_left(wl, LamMin + 5)
DomainHi(wl) == bisect_left(wl, LamMax - 5)

\* the margin, in pixels, kept around the line windows by the crop
CropMargin == 5
CropLo(breakpoints) == breakpoints[Len(breakpoints)] - CropMargin
CropHi(breakpoints) == breakpoints[1] + CropMargin

\* lines 362-364, 375: a[(breakpoints[-1] - 5):(breakpoints[0] + 5)] if crop
Crop(a, breakpoints, crop) ==
    IF crop THEN PySlice(a, CropLo(breakpoints), CropHi(breakpoints)) ELSE a

\* a variant of line 365 that leaves the continuum mask as long as it was
CropMask_skipped(cm, breakpoints, crop) == cm

\* line 365: self.contmask = self.contmask[(breakpoints[-1] - 5):
\* (breakpoints[0] + 5)] if crop
CropMask(cm, breakpoints, crop) == Crop(cm, breakpoints, crop)

\* residual(params): the penalty outside the bounds, else the weighted sum of
\* squared residuals on the continuum pixels; chi2 has Milli = 1.0
PenaltyChi2 == 2 * 1000000000
SqDiff(a, b, w) == XMul(XDiv(XMul(XSub(a, b), XSub(a, b)), Fin(Milli), 1), w)
\*   called  whether spectrum_sampler was evaluated, model its outcome
\*   raised, val  the outcome of residual
residual(wl, fl, ivar, params, cf, rvv, contmask, sc) ==
    IF params[1] < 6500 \/ params[1] > 39000 \/ params[2] < 65 \/ params[2] > 95
    THEN [raised |-> FALSE, val |-> Fin(PenaltyChi2), called |-> FALSE,
          model |-> Raised]
    ELSE Only({ IF m.raised \/ Len(contmask) # Len(wl)
                THEN [raised |-> TRUE, val |-> Fin(0), called |-> TRUE, model |-> m]
                ELSE [raised |-> FALSE,
                      val |-> XSum(Select(
                        Arr([i \in 1..Len(wl) |-> SqDiff(fl[i], m.val[i], ivar[i])]),
                        contmask)),
                      called |-> TRUE, model |-> m]
              : m \in {spectrum_sampler(wl, params, cf, rvv, contmask, sc)} })

\* lines 349-353: the smooth continuum from the fitted model, a spline
\* through the continuum pixels of model / median(model)
SmoothCont(wl, model, contmask) ==
    LET med == median(Select(model, contmask))
        ynorm == Arr([i \in 1..Len(wl) |-> XDiv(model[i], med, Milli)])
        spl == SplineThrough(wl, ynorm, contmask)
    IN Arr([i \in 1..Len(wl) |-> XDiv(XMul(spl[i], med), Fin(Milli), 1)])

(***************************************************************************)
(* Likelihood and prior of fit_spectrum                                    *)
(***************************************************************************)
nstarparams == 2
prior_lows == <<6500, 65>>
\* a variant of the upper bounds that lets Teff to 45000 and logg to 10
prior_highs_wide == <<45000, 100>>
prior_highs == <<40000, 95>>

\* no temperature prior
None == <<>>

\* natural logarithm of a positive integer, in thousandths: the power of two
\* below n, then a table of ln(1 + i/10), interpolated
LnTab == <<0, 95, 182, 262, 336, 405, 470, 531, 588, 642, 693>>
RECURSIVE Log2Floor(_)
Log2Floor(n) == IF n < 2 THEN 0 ELSE 1 + Log2Floor(n \div 2)
RECURSIVE IPow2(_)
IPow2(n) == IF n = 0 THEN 1 ELSE 2 * IPow2(n - 1)
LnMilli(n) ==
    LET k == Log2Floor(n)
        frac == (n * Milli) \div IPow2(k) - Milli
        i == frac \div 100
        f == frac % 100
    IN k * LnTab[11] + LnTab[i + 1] + ((LnTab[i + 2] - LnTab[i + 1]) * f) \div 100

\* np.sqrt(2*np.pi), Milli = 1.0
SqrtTwoPi == 2507

\* np.log(1.0/(np.sqrt(2*np.pi)*sigma))-0.5*(prms[0]-mu)**2/sigma**2, sigma > 0
NormalLogPdf(x, mu, sigma) ==
    LET z == ((x - mu) * Milli) \div sigma
    IN Fin(-LnMilli((SqrtTwoPi * sigma) \div Milli) - (z * z) \div (2 * Milli))

\* lnprior(prms): the box bounds of the first nstarparams parameters in
\* turn, then the optional Gaussian term on prms[0]
\* a variant of lnprior that tests the bound of the first parameter only
lnprior_first_bound_only(prms, prior_teff) ==
    IF prms[1] < prior_lows[1] \/ prms[1] > prior_highs[1] THEN NInf
    ELSE IF prior_teff # None
    THEN Fin(-LnMilli((SqrtTwoPi * prior_teff[2]) \div Milli)
             - ((((prms[1] - prior_teff[1]) * Milli) \div prior_teff[2])
                * (((prms[1] - prior_teff[1]) * Milli) \div prior_teff[2]))
               \div (2 * Milli))
    ELSE Fin(0)

RECURSIVE BoundsFrom(_, _)
BoundsFrom(prms, jj) ==
    IF jj > nstarparams THEN TRUE
    ELSE IF prms[jj] < prior_lows[jj] \/ prms[jj] > prior_highs[jj] THEN FALSE
    ELSE BoundsFrom(prms, jj + 1)
lnprior(prms, prior_teff) ==
    IF ~BoundsFrom(prms, 1) THEN NInf
    ELSE IF prior_teff # None
    THEN NormalLogPdf(prms[1], prior_teff[1], prior_teff[2])
    ELSE Fin(0)

\* the engine fields a likelihood evaluation reads
EngineView(cf, rvv, cm, mk, sc) ==
    [cont_fixed |-> cf, rv |-> rvv, contmask |-> cm, mask |-> mk,
     specclass |-> sc]

\* lnlike, given the model spectrum spectrum_sampler returned: the weighted
\* squared residuals on the pixels of self.mask; a NaN total gives -inf
ChiSq(model, fl, ivar, mk) ==
    XSum(Select(Arr([i \in 1..Len(fl) |-> SqDiff(model[i], fl[i], ivar[i])]), mk))

\* a variant of lnlike without the np.isnan test
lnlike_unchecked(model, fl, ivar, mk) ==
    IF model.raised \/ Len(mk) # Len(fl) THEN Raised
    ELSE Ok(XNeg(XDiv(ChiSq(model.val, fl, ivar, mk), Fin(2), 1)))

lnlike_of(model, fl, ivar, mk) ==
    IF model.raised \/ Len(mk) # Len(fl) THEN Raised
    ELSE LET chisq == ChiSq(model.val, fl, ivar, mk)
         IN IF IsNan(chisq) THEN Ok(NInf)
            ELSE Ok(XNeg(XDiv(chisq, Fin(2), 1)))

\* a variant of lnprob that evaluates the likelihood whatever the prior
lnprob_eager(wl, fl, ivar, prior_teff, prms, eng) ==
    Only({ Only({ [prms |-> prms, lp |-> lnprior(prms, prior_teff),
                   called |-> TRUE, model |-> model, ll |-> ll,
                   out |-> IF ll.raised THEN Raised
                           ELSE Ok(XAdd(lnprior(prms, prior_teff), ll.val))]
                 : ll \in {lnlike_of(model, fl, ivar, eng.mask)} })
          : model \in {spectrum_sampler(wl, prms, eng.cont_fixed, eng.rv,
                                        eng.contmask, eng.specclass)} })

\* lnprob(prms): what it returns and what it evaluated on the way
\*   lp      lnprior(prms)
\*   called  whether lnlike, and so spectrum_sampler, was evaluated
\*   model   the outcome of spectrum_sampler (when called)
\*   ll      the outcome of lnlike (when called)
\*   out     the outcome of lnprob
lnprob(wl, fl, ivar, prior_teff, prms, eng) ==
    LET lp == lnprior(prms, prior_teff)
    IN IF ~IsFinite(lp)
       THEN [prms |-> prms, lp |-> lp, called |-> FALSE, model |-> Raised,
             ll |-> Raised, out |-> Ok(NInf)]
       ELSE Only({ Only({ [prms |-> prms, lp |-> lp, called |-> TRUE,
                            model |-> model, ll |-> ll,
                            out |-> IF ll.raised THEN Raised
                                    ELSE Ok(XAdd(lp, ll.val))]
                          : ll \in {lnlike_of(model, fl, ivar, eng.mask)} })
                   : model \in {spectrum_sampler(wl, prms, eng.cont_fixed, eng.rv,
                                                 eng.contmask, eng.specclass)} })

(***************************************************************************)
(* Observed spectra handed to fit_spectrum                                 *)
(***************************************************************************)
\* the wavelength array: n pixels from w0, LamStep apart
WlFrom(w0, n) == Arr([i \in 1..n |-> w0 + (i - 1) * LamStep])

\* the flux of a star of the given labels as the emulator draws it, unnormalised
StarFlux(wl, teff, logg) ==
    spectrum_sampler(wl, <<teff, logg>>, FALSE, 0, <<>>, <<"DA">>).val

ConstArr(n, v) == Arr([i \in 1..n |-> v])
Put(a, i, v) == Arr([j \in 1..Len(a) |-> IF j = i THEN v ELSE a[j]])

WlWide == WlFrom(3000, 50)
WlLine == WlFrom(6400, 4)
WlEdge == WlFrom(3700, 38)

\* warm, cool: a 17000 K and a 9000 K star on 3000..7900 A
\* zerovar:    the warm star with one zero-variance pixel in H-beta
\* noivar:     the cool star without an inverse-variance array
\* short:      four pixels inside the H-alpha window, no continuum pixel
\* edge:       the warm star on 3700..7400 A, H8 within 5 pixels of the start
ObsNames == {"warm", "cool", "zerovar", "noivar", "short", "edge"}
Obs ==
    [ warm    |-> [wl |-> WlWide, fl |-> StarFlux(WlWide, 17000, 80),
                   ivar |-> ConstArr(50, Fin(4)), has_ivar |-> TRUE],
      cool    |-> [wl |-> WlWide, fl |-> StarFlux(WlWide, 9000, 80),
                   ivar |-> ConstArr(50, Fin(4)), has_ivar |-> TRUE],
      zerovar |-> [wl |-> WlWide, fl |-> StarFlux(WlWide, 17000, 80),
                   ivar |-> Put(ConstArr(50, Fin(4)), 20, PInf), has_ivar |-> TRUE],
      noivar  |-> [wl |-> WlWide, fl |-> StarFlux(WlWide, 9000, 80),
                   ivar |-> <<>>, has_ivar |-> FALSE],
      short   |-> [wl |-> WlLine, fl |-> StarFlux(WlLine, 17000, 80),
                   ivar |-> ConstArr(4, Fin(4)), has_ivar |-> TRUE],
      edge    |-> [wl |-> WlEdge, fl |-> StarFlux(WlEdge, 17000, 80),
                   ivar |-> ConstArr(38, Fin(4)), has_ivar |-> TRUE] ]

\* pyasl's beta-sigma estimate: ivar = np.repeat(1 / std**2, len(fl))
InferIvar(fl) == ConstArr(Len(fl), Fin(2))

(***************************************************************************)
(* Bounds of the exploration                                               *)
(***************************************************************************)
\* function evaluations a minimizer makes after the one at its seed
MaxFev == 1
\* walkers, burn-in steps and production steps of the ensemble sampler
NWalkers == 2
Burn == 1
NDraws == 2

\* calls a caller makes one after the other
MaxOps == 2

\* the callers that may be inside the engine
AllThreads == {1, 2}

\* velocities the correlation primitive may return, km/s
RvSet == {0, 1500}

\* parameter vectors a solver may try: Teff, logg, then the polynomial
\* coefficients (CoefOne = 1.0)
Cands ==
    { <<9000, 80, CoefOne, 100>>, <<17000, 80, CoefOne, 100>>,
      <<6499, 80, CoefOne, 0>>, <<40001, 80, CoefOne, 0>>,
      <<12000, 64, CoefOne, 0>>, <<12000, 96, CoefOne, 100>>,
      <<6500, 65, CoefOne, 0>>, <<40000, 95, CoefOne, 0>>,
      <<9000, 80, CoefOne, -100>> }

\* vectors the continuum fit may try: Teff, logg, four coefficients
ContCands == { <<17000, 80, CoefOne, 0, 0, 0>>, <<9000, 80, CoefOne, 0, 0, 0>>,
               <<5000, 80, CoefOne, 0, 0, 0>> }

\* labels a caller may pass to spectrum_sampler directly: Teff, logg
LabelSet == { <<5000, 80>>, <<5500, 65>>, <<12000, 80>>, <<40000, 95>>,
              <<45000, 80>>, <<12000, 60>>, <<12000, 100>> }

\* the fits a caller may ask for: the observation, prior_teff, mcmc, and
\* the lines and crop options of norm_kw
Calls ==
    { [obs |-> "warm", prior_teff |-> None, mcmc |-> FALSE,
       lines |-> DefaultLines, crop |-> TRUE],
      [obs |-> "cool", prior_teff |-> None, mcmc |-> FALSE,
       lines |-> DefaultLines, crop |-> TRUE],
      [obs |-> "warm", prior_teff |-> <<12000, 1000>>, mcmc |-> TRUE,
       lines |-> DefaultLines, crop |-> TRUE],
      [obs |-> "zerovar", prior_teff |-> None, mcmc |-> FALSE,
       lines |-> DefaultLines, crop |-> TRUE],
      [obs |-> "noivar", prior_teff |-> <<12000, 1000>>, mcmc |-> FALSE,
       lines |-> DefaultLines, crop |-> TRUE],
      [obs |-> "short", prior_teff |-> None, mcmc |-> FALSE,
       lines |-> DefaultLines, crop |-> TRUE],
      [obs |-> "edge", prior_teff |-> None, mcmc |-> FALSE,
       lines |-> DefaultLines, crop |-> TRUE],
      [obs |-> "warm", prior_teff |-> None, mcmc |-> FALSE,
       lines |-> <<"beta", "gamma">>, crop |-> TRUE],
      [obs |-> "warm", prior_teff |-> None, mcmc |-> FALSE,
       lines |-> <<"gamma", "beta">>, crop |-> TRUE],
      [obs |-> "warm", prior_teff |-> None, mcmc |-> FALSE,
       lines |-> DefaultLines, crop |-> FALSE] }

\* what a run explores: the fits each caller may ask for, the vectors the
\* solvers may try, the velocities and the labels.  "full" is one caller with
\* everything; the others are two callers with a part of it
Scopes ==
    [ full |->
        [ calls |-> [t \in AllThreads |-> Calls], cands |-> Cands,
          contcands |-> ContCands, rvs |-> RvSet, labels |-> LabelSet,
          ops |-> MaxOps ],
      sampler_and_short |->
        [ calls |-> [t \in AllThreads |->
                       IF t = 1
                       THEN {[obs |-> "warm", prior_teff |-> <<12000, 1000>>,
                              mcmc |-> TRUE, lines |-> DefaultLines,
                              crop |-> TRUE]}
                       ELSE {[obs |-> "short", prior_teff |-> None,
                              mcmc |-> FALSE, lines |-> DefaultLines,
                              crop |-> TRUE]}],
          cands |-> {<<9000, 80, CoefOne, 100>>},
          contcands |-> {<<9000, 80, CoefOne, 0, 0, 0>>},
          rvs |-> {1500}, labels |-> {<<12000, 80>>}, ops |-> 1 ],
      two_fits |->
        [ calls |-> [t \in AllThreads |->
                       IF t = 1
                       THEN {[obs |-> "warm", prior_teff |-> None, mcmc |-> FALSE,
                              lines |-> DefaultLines, crop |-> TRUE]}
                       ELSE {[obs |-> "cool", prior_teff |-> None, mcmc |-> FALSE,
                              lines |-> DefaultLines, crop |-> TRUE]}],
          cands |-> {}, contcands |-> {},
          rvs |-> {1500}, labels |-> {<<12000, 80>>}, ops |-> 1 ] ]

\* the standard-normal draws of the walkers' starting positions, one vector
\* of draws per run
JitterDraws == { [w \in 1..NWalkers |-> IF w % 2 = 1 THEN 1 ELSE -1] }

(***************************************************************************)
(* State                                                                   *)
(***************************************************************************)
VARIABLES
    cont_fixed,   \* self.cont_fixed
    rv,           \* self.rv
    contmask,     \* self.contmask
    mask,         \* self.mask
    specclass,    \* self.specclass (and self.isbinary: more than one name)
    pc,           \* per caller: where its fit_spectrum call stands
    loc,          \* per caller: the locals of its fit_spectrum call
    lastEval,     \* per caller: its latest spectrum_sampler evaluation
    lastProb,     \* per caller: its latest lnprob evaluation
    result,       \* per caller: what its latest call gave back
    scope,        \* the name of what the run explores, see Scopes
    ops           \* per caller: the calls it has made

vars == <<cont_fixed, rv, contmask, mask, specclass, pc, loc,
          lastEval, lastProb, result, scope, ops>>
engine == <<cont_fixed, rv, contmask, mask>>

NoEval == [stage |-> "none", prms |-> <<>>, cont_fixed |-> FALSE, rv |-> 0,
           out |-> Raised]
NoProb == [prms |-> <<>>, lp |-> Fin(0), called |-> FALSE, model |-> Raised,
           ll |-> Raised, out |-> Raised]
NoResult == [kind |-> "none"]

NoLoc ==
    [ obs |-> "none", prior_teff |-> None, mcmc |-> FALSE,
      lines |-> <<>>, crop |-> TRUE,
      wl |-> <<>>, fl |-> <<>>, ivar |-> <<>>, breakpoints |-> <<>>,
      normalized |-> FALSE, init_soln |-> <<>>, template |-> <<>>,
      rvcalls |-> 0, resolved |-> 0, star_rv |-> 0,
      nfev |-> 0, best |-> <<>>, bestf |-> Fin(0),
      cool_soln |-> <<>>, cool_chi |-> Fin(0),
      warm_soln |-> <<>>, warm_chi |-> Fin(0),
      soln |-> <<>>, chi |-> Fin(0), tstr |-> "none",
      mle |-> <<>>, redchi |-> Fin(0),
      coords |-> <<>>, clp |-> <<>>, chain |-> <<>>, discarded |-> <<>>,
      iter |-> 0, walker |-> 0, warnings |-> {} ]

\* the classes an engine may be asked for, as specclass.split('+')
ClassArgs == { <<"DA">>, <<"DB">>, <<"DC">>, <<"DA", "DA">>, <<"DA", "DB">> }

\* GFP.__init__ lines 98-119: 'DB' raises; a class without '+' is kept as it
\* is, of one with '+' the first two names are kept
init(arg) ==
    IF arg = <<"DB">> THEN Raised
    ELSE IF Len(arg) = 1 THEN Ok(arg)
    ELSE Ok(<<arg[1], arg[2]>>)

\* GFP.__init__ lines 91-96: the fields of a new engine
InitEngine ==
    /\ cont_fixed = FALSE
    /\ rv = 0
    /\ contmask = <<>>
    /\ mask = <<>>

InitCallers ==
    /\ ops = [t \in AllThreads |-> 0]
    /\ loc = [t \in AllThreads |-> NoLoc]
    /\ lastEval = [t \in AllThreads |-> NoEval]
    /\ lastProb = [t \in AllThreads |-> NoProb]
    /\ result = [t \in AllThreads |-> NoResult]

\* one caller: the engine is built for a class, fits follow one another.
\* When __init__ raises there is no engine to call
Init ==
    /\ InitEngine
    /\ InitCallers
    /\ \E arg \in ClassArgs :
          /\ specclass = (IF init(arg).raised THEN <<>> ELSE init(arg).val)
          /\ pc = [t \in AllThreads |->
                     IF t = 1 /\ ~init(arg).raised THEN "idle" ELSE "absent"]
    /\ scope = "full"

\* two callers share the engine
InitConc ==
    /\ InitEngine
    /\ InitCallers
    /\ specclass = init(<<"DA">>).val
    /\ pc = [t \in AllThreads |-> "idle"]
    /\ scope \in {"sampler_and_short", "two_fits"}

\* the engine as a likelihood evaluation finds it
Eng == EngineView(cont_fixed, rv, contmask, mask, specclass)

\* a spectrum_sampler evaluation made for caller t at its present stage
EvalRec(t, prms, out) ==
    [stage |-> pc[t], prms |-> prms, cont_fixed |-> cont_fixed,
     rv |-> IF cont_fixed THEN rv ELSE 0, out |-> out]

\* an exception leaves fit_spectrum: the locals are gone, the engine stays
\* as it is
Raise(t) ==
    /\ pc' = [pc EXCEPT ![t] = "idle"]
    /\ loc' = [loc EXCEPT ![t] = NoLoc]
    /\ result' = [result EXCEPT ![t] = [kind |-> "raised", stage |-> pc[t]]]

Goto(t, stage) == pc' = [pc EXCEPT ![t] = stage]

(***************************************************************************)
(* A direct call of spectrum_sampler                                       *)
(***************************************************************************)
UserSample(t) ==
    /\ pc[t] = "idle"
    /\ ops[t] < Scopes[scope].ops
    /\ ops' = [ops EXCEPT ![t] = @ + 1]
    /\ UNCHANGED <<scope, specclass>>
    /\ \E lab \in Scopes[scope].labels :
          \E out \in {spectrum_sampler(WlWide, lab, cont_fixed, rv, contmask,
                                        specclass)} :
             /\ result' = [result EXCEPT ![t] =
                    [kind |-> "sampled", teff |-> lab[1], logg |-> lab[2],
                     out |-> out]]
             /\ lastEval' = [lastEval EXCEPT ![t] = EvalRec(t, lab, out)]
    /\ lastProb' = [lastProb EXCEPT ![t] = NoProb]
    /\ UNCHANGED <<engine, pc, loc>>

(***************************************************************************)
(* fit_spectrum: entry and continuum normalization                         *)
(***************************************************************************)
\* lines 443-452: the call, self.cont_fixed = False, the inferred ivar
Call(t) ==
    /\ pc[t] = "idle"
    /\ ops[t] < Scopes[scope].ops
    /\ ops' = [ops EXCEPT ![t] = @ + 1]
    /\ UNCHANGED <<scope, specclass>>
    /\ \E c \in Scopes[scope].calls[t] :
          loc' = [loc EXCEPT ![t] =
                    [NoLoc EXCEPT !.obs = c.obs, !.prior_teff = c.prior_teff,
                                  !.mcmc = c.mcmc,
                                  !.lines = c.lines, !.crop = c.crop,
                                  !.wl = Obs[c.obs].wl, !.fl = Obs[c.obs].fl,
                                  !.ivar = IF Obs[c.obs].has_ivar
                                           THEN Obs[c.obs].ivar
                                           ELSE InferIvar(Obs[c.obs].fl)]]
    /\ cont_fixed' = FALSE
    /\ Goto(t, "norm")
    /\ result' = [result EXCEPT ![t] = NoResult]
    /\ lastEval' = [lastEval EXCEPT ![t] = NoEval]
    /\ lastProb' = [lastProb EXCEPT ![t] = NoProb]
    /\ UNCHANGED <<rv, contmask, mask>>

\* np.mean of a finite array
RECURSIVE ISum(_)
ISum(a) == IF a = <<>> THEN 0 ELSE a[1].v + ISum(Tail(a))

\* chebfit(x, fl, cont_polyorder): the least-squares coefficients, taken as
\* the mean flux with no higher term (fluxes have 100 = 1.0)
chebfit(fl) ==
    IF fl = <<>> THEN <<0, 0, 0, 0>>
    ELSE << (CoefOne \div FluxOne) * (ISum(fl) \div Len(fl)), 0, 0, 0 >>

\* normalize_DA lines 297-331: the crop to the emulator's domain, the masks,
\* the seed of the continuum fit
NormStart(t) ==
    /\ pc[t] = "norm"
    /\ UNCHANGED <<scope, ops, specclass>>
    /\ LET l == loc[t]
           in1 == DomainLo(l.wl)
           in2 == DomainHi(l.wl)
           wl1 == PySlice(l.wl, in1, in2)
           fl1 == PySlice(l.fl, in1, in2)
           iv1 == PySlice(l.ivar, in1, in2)
           lm == LineMask(wl1, l.lines)
       IN /\ loc' = [loc EXCEPT ![t].wl = wl1, ![t].fl = fl1, ![t].ivar = iv1,
                                ![t].breakpoints = Breakpoints(wl1, l.lines),
                                ![t].best = <<12000, 80>> \o chebfit(fl1),
                                ![t].nfev = 0]
          /\ contmask' = Not(lm)
          /\ mask' = ConstArr(Len(wl1), TRUE)
    /\ Goto(t, "contseed")
    /\ UNCHANGED <<cont_fixed, rv, lastEval, lastProb, result>>

\* one evaluation of residual(params) by the Nelder-Mead minimizer
ResidualAt(t, prms) ==
    residual(loc[t].wl, loc[t].fl, loc[t].ivar, prms, cont_fixed, rv, contmask,
             specclass)

\* the residual's spectrum_sampler call, if it made one
ResidualEval(t, prms, r) ==
    IF r.called THEN EvalRec(t, prms, r.model) ELSE lastEval[t]

\* line 344: the minimizer evaluates residual at init_prms
ContSeed(t) ==
    /\ pc[t] = "contseed"
    /\ UNCHANGED <<scope, ops, specclass>>
    /\ \E r \in {ResidualAt(t, loc[t].best)} :
          /\ lastEval' = [lastEval EXCEPT ![t] = ResidualEval(t, loc[t].best, r)]
          /\ IF r.raised
             THEN Raise(t)
             ELSE /\ loc' = [loc EXCEPT ![t].bestf = r.val]
                  /\ Goto(t, "contfit")
                  /\ UNCHANGED result
    /\ UNCHANGED <<engine, lastProb>>

\* line 344: one more evaluation; the minimizer keeps the lowest vertex
ContEval(t) ==
    /\ pc[t] = "contfit"
    /\ UNCHANGED <<scope, ops, specclass>>
    /\ loc[t].nfev < MaxFev
    /\ \E c \in Scopes[scope].contcands :
          \E r \in {ResidualAt(t, c)} :
             /\ lastEval' = [lastEval EXCEPT ![t] = ResidualEval(t, c, r)]
             /\ IF r.raised
                THEN Raise(t)
                ELSE /\ loc' = [loc EXCEPT
                            ![t].nfev = @ + 1,
                            ![t].best = IF XLt(r.val, loc[t].bestf) THEN c ELSE @,
                            ![t].bestf = IF XLt(r.val, loc[t].bestf) THEN r.val ELSE @]
                     /\ UNCHANGED <<pc, result>>
    /\ UNCHANGED <<engine, lastProb>>

\* lines 344-347: the minimizer returns soln; self.mask = ~self.contmask
ContDone(t) ==
    /\ pc[t] = "contfit"
    /\ UNCHANGED <<scope, ops, specclass>>
    /\ loc' = [loc EXCEPT ![t].init_soln = loc[t].best]
    /\ mask' = Not(contmask)
    /\ Goto(t, "normfin")
    /\ UNCHANGED <<cont_fixed, rv, contmask, lastEval, lastProb,
                   result>>

\* lines 349-384: the smooth continuum of the fitted model, the division,
\* the crop to the line windows, the rescaled inverse variance
NormFinish(t) ==
    /\ pc[t] = "normfin"
    /\ UNCHANGED <<scope, ops, specclass>>
    /\ \E m \in {spectrum_sampler(loc[t].wl, loc[t].init_soln, cont_fixed, rv,
                                   contmask, specclass)} :
       LET l == loc[t]
       IN /\ lastEval' = [lastEval EXCEPT ![t] = EvalRec(t, l.init_soln, m)]
          /\ IF \/ m.raised
                \/ Len(contmask) # Len(l.wl)
                \/ CountTrue(contmask) <= SplineDegree
             THEN Raise(t) /\ UNCHANGED <<contmask, mask>>
             ELSE \E smooth_cont \in {SmoothCont(l.wl, m.val, contmask)} :
                  LET fln == Arr([i \in 1..Len(l.wl) |->
                                    XDiv(l.fl[i], smooth_cont[i], Milli)])
                      ivn == Arr([i \in 1..Len(l.wl) |->
                                    XDiv(XMul(l.ivar[i],
                                              XMul(smooth_cont[i], smooth_cont[i])),
                                         Fin(FluxOne * FluxOne), 1)])
                  IN /\ loc' = [loc EXCEPT
                              ![t].wl = Crop(l.wl, l.breakpoints, l.crop),
                              ![t].fl = Crop(fln, l.breakpoints, l.crop),
                              ![t].ivar = Crop(ivn, l.breakpoints, l.crop),
                              ![t].normalized = TRUE]
                     /\ contmask' = CropMask(contmask, l.breakpoints, l.crop)
                     /\ mask' = IF l.crop THEN Not(contmask') ELSE mask
                     /\ Goto(t, "setflag")
                     /\ UNCHANGED result
    /\ UNCHANGED <<cont_fixed, rv, lastProb>>

(***************************************************************************)
(* fit_spectrum: the frozen mode and the velocity                          *)
(***************************************************************************)
\* a variant of line 525 that leaves the flag as it is
SetFlagSkipped(t) ==
    /\ pc[t] = "setflag"
    /\ Goto(t, "template")
    /\ UNCHANGED <<engine, loc, lastEval, lastProb, result, scope, ops,
                   specclass>>

\* line 525: self.cont_fixed = True
SetFlag(t) ==
    /\ pc[t] = "setflag"
    /\ UNCHANGED <<scope, ops, specclass>>
    /\ cont_fixed' = TRUE
    /\ Goto(t, "template")
    /\ UNCHANGED <<rv, contmask, mask, loc, lastEval, lastProb, result>>

\* line 539: template = self.spectrum_sampler(wl, *init_soln[0:2])
Template(t) ==
    /\ pc[t] = "template"
    /\ UNCHANGED <<scope, ops, specclass>>
    /\ \E prms \in {SubSeq(loc[t].init_soln, 1, 2)} :
       \E m \in {spectrum_sampler(loc[t].wl, prms, cont_fixed, rv, contmask,
                                   specclass)} :
          /\ lastEval' = [lastEval EXCEPT ![t] = EvalRec(t, prms, m)]
          /\ IF m.raised
             THEN Raise(t)
             ELSE /\ loc' = [loc EXCEPT ![t].template = m.val]
                  /\ Goto(t, "getrv")
                  /\ UNCHANGED result
    /\ UNCHANGED <<engine, lastProb>>

\* line 540: self.rv = self.sp.get_rv(wl, fl, wl, template), the velocity the
\* correlation primitive finds
GetRv(t) ==
    /\ pc[t] = "getrv"
    /\ UNCHANGED <<scope, ops, specclass>>
    /\ \E v \in Scopes[scope].rvs : rv' = v
    /\ loc' = [loc EXCEPT ![t].rvcalls = @ + 1, ![t].resolved = rv']
    /\ Goto(t, "starrv")
    /\ UNCHANGED <<cont_fixed, contmask, mask, lastEval, lastProb, result>>

\* line 541: star_rv = self.rv
StarRv(t) ==
    /\ pc[t] = "starrv"
    /\ UNCHANGED <<scope, ops, specclass>>
    /\ loc' = [loc EXCEPT ![t].star_rv = rv]
    /\ Goto(t, "coolseed")
    /\ UNCHANGED <<engine, lastEval, lastProb, result>>

(***************************************************************************)
(* fit_spectrum: the two minimizer runs                                    *)
(***************************************************************************)
\* lnprob(prms) as caller t evaluates it now
ProbAt(t, prms) ==
    lnprob(loc[t].wl, loc[t].fl, loc[t].ivar, loc[t].prior_teff, prms, Eng)

\* what an lnprob evaluation leaves behind
NoteProb(t, P) ==
    /\ lastProb' = [lastProb EXCEPT ![t] = P]
    /\ lastEval' = [lastEval EXCEPT ![t] =
                      IF P.called THEN EvalRec(t, P.prms, P.model) ELSE @]

\* init_prms: the seed, extended by np.zeros(polyorder) with the first
\* coefficient set to 1 (polyorder = 2)
CoolSeedPrms == <<9000, 80, CoefOne, 0>>
WarmSeedPrms == <<17000, 80, CoefOne, 0>>

\* lines 556, 568: the minimizer evaluates nll at init_prms
MinSeed(t, at, seed, next) ==
    /\ pc[t] = at
    /\ UNCHANGED <<scope, ops, specclass>>
    /\ \E P \in {ProbAt(t, seed)} :
          /\ NoteProb(t, P)
          /\ IF P.out.raised
             THEN Raise(t)
             ELSE /\ loc' = [loc EXCEPT ![t].best = seed,
                                        ![t].bestf = XNeg(P.out.val),
                                        ![t].nfev = 0]
                  /\ Goto(t, next)
                  /\ UNCHANGED result
    /\ UNCHANGED engine

\* lines 556, 568: one more evaluation of nll; the lowest vertex is kept
MinEval(t, at) ==
    /\ pc[t] = at
    /\ UNCHANGED <<scope, ops, specclass>>
    /\ loc[t].nfev < MaxFev
    /\ \E c \in Scopes[scope].cands :
          \E P \in {ProbAt(t, c)} :
             /\ NoteProb(t, P)
             /\ IF P.out.raised
                THEN Raise(t)
                ELSE LET f == XNeg(P.out.val)
                         better == XLt(f, loc[t].bestf)
                     IN /\ loc' = [loc EXCEPT
                              ![t].nfev = @ + 1,
                              ![t].best = IF better THEN c ELSE @,
                              ![t].bestf = IF better THEN f ELSE @]
                        /\ UNCHANGED <<pc, result>>
    /\ UNCHANGED engine

\* the minimizer returns cool_soln
CoolDone(t) ==
    /\ pc[t] = "cool"
    /\ UNCHANGED <<scope, ops, specclass>>
    /\ loc' = [loc EXCEPT ![t].cool_soln = loc[t].best]
    /\ Goto(t, "coolchi")
    /\ UNCHANGED <<engine, lastEval, lastProb, result>>

\* line 557: cool_chi = -2 * lnprob(cool_soln.x)
CoolChi(t) ==
    /\ pc[t] = "coolchi"
    /\ UNCHANGED <<scope, ops, specclass>>
    /\ \E P \in {ProbAt(t, loc[t].cool_soln)} :
          /\ NoteProb(t, P)
          /\ IF P.out.raised
             THEN Raise(t)
             ELSE /\ loc' = [loc EXCEPT ![t].cool_chi = XMul(Fin(-2), P.out.val)]
                  /\ Goto(t, "warmseed")
                  /\ UNCHANGED result
    /\ UNCHANGED engine

\* the minimizer returns warm_soln
WarmDone(t) ==
    /\ pc[t] = "warm"
    /\ UNCHANGED <<scope, ops, specclass>>
    /\ loc' = [loc EXCEPT ![t].warm_soln = loc[t].best]
    /\ Goto(t, "warmchi")
    /\ UNCHANGED <<engine, lastEval, lastProb, result>>

\* line 569: warm_chi = -2 * lnprob(warm_soln.x)
WarmChi(t) ==
    /\ pc[t] = "warmchi"
    /\ UNCHANGED <<scope, ops, specclass>>
    /\ \E P \in {ProbAt(t, loc[t].warm_soln)} :
          /\ NoteProb(t, P)
          /\ IF P.out.raised
             THEN Raise(t)
             ELSE /\ loc' = [loc EXCEPT ![t].warm_chi = XMul(Fin(-2), P.out.val)]
                  /\ Goto(t, "select")
                  /\ UNCHANGED result
    /\ UNCHANGED engine

\* a variant of lines 573-580 that gives a tie to the cool branch
Branch_tie_cool(cool_soln, cool_chi, warm_soln, warm_chi) ==
    IF XLe(cool_chi, warm_chi)
    THEN [soln |-> cool_soln, chi |-> cool_chi, tstr |-> "cool"]
    ELSE [soln |-> warm_soln, chi |-> warm_chi, tstr |-> "warm"]

\* lines 573-580: the branch with the lower chi-square
Branch(cool_soln, cool_chi, warm_soln, warm_chi) ==
    IF XLt(cool_chi, warm_chi)
    THEN [soln |-> cool_soln, chi |-> cool_chi, tstr |-> "cool"]
    ELSE [soln |-> warm_soln, chi |-> warm_chi, tstr |-> "warm"]

\* chi / np.sum(self.mask), a float division
RedChi(chi, npix) == XDiv(chi, Fin(npix), 1)

\* lines 573-586: soln, chi, tstr, mle, redchi
SelectBranch(t) ==
    /\ pc[t] = "select"
    /\ UNCHANGED <<scope, ops, specclass>>
    /\ LET l == loc[t]
           b == Branch(l.cool_soln, l.cool_chi, l.warm_soln, l.warm_chi)
       IN loc' = [loc EXCEPT ![t].soln = b.soln, ![t].chi = b.chi,
                             ![t].tstr = b.tstr, ![t].mle = b.soln,
                             ![t].redchi = RedChi(b.chi, CountTrue(mask))]
    /\ Goto(t, IF loc[t].mcmc THEN "mcinit" ELSE "fitfl")
    /\ UNCHANGED <<engine, lastEval, lastProb, result>>

(***************************************************************************)
(* fit_spectrum: the ensemble sampler                                      *)
(***************************************************************************)
\* line 598: pos0[:,jj] = soln[jj] + 1e-2*soln[jj]*n, n the walker's draw
Jitter(soln, n) == Arr([jj \in 1..Len(soln) |-> soln[jj] + (soln[jj] * n) \div 100])

\* emcee's check of the initial state: the walkers must differ in every
\* dimension
WalkersIndependent(coords) ==
    \A jj \in 1..Len(coords[1]) :
        \E w \in 1..Len(coords) : coords[w][jj] # coords[1][jj]

\* lines 590-598: the sampler and the walkers' starting positions
McInit(t) ==
    /\ pc[t] = "mcinit"
    /\ UNCHANGED <<scope, ops, specclass>>
    /\ \E draws \in JitterDraws :
          loc' = [loc EXCEPT
                    ![t].coords = Arr([w \in 1..NWalkers |->
                                          Jitter(loc[t].soln, draws[w])]),
                    ![t].clp = <<>>, ![t].chain = <<>>,
                    ![t].iter = 0, ![t].walker = 1]
    /\ Goto(t, "mcstart")
    /\ UNCHANGED <<engine, lastEval, lastProb, result>>

\* line 603, run_mcmc(pos0, burn): the initial state is checked, then the
\* log-probability of each walker's starting position is evaluated
McStart(t) ==
    /\ pc[t] = "mcstart"
    /\ UNCHANGED <<scope, ops, specclass>>
    /\ LET l == loc[t]
       IN IF ~WalkersIndependent(l.coords)
          THEN Raise(t) /\ UNCHANGED <<lastEval, lastProb>>
          ELSE \E P \in {ProbAt(t, l.coords[l.walker])} :
               /\ NoteProb(t, P)
               /\ IF P.out.raised
                  THEN Raise(t)
                  ELSE /\ loc' = [loc EXCEPT
                              ![t].clp = Append(@, P.out.val),
                              ![t].walker = IF l.walker = NWalkers THEN 1 ELSE @ + 1]
                       /\ Goto(t, IF l.walker = NWalkers THEN "burn" ELSE "mcstart")
                       /\ UNCHANGED result
    /\ UNCHANGED engine

\* the stretch move with z = 2: the walker is moved away from the other one
Other(w) == IF w = NWalkers THEN 1 ELSE w + 1
Stretch(x, y) == Arr([jj \in 1..Len(x) |-> 2 * x[jj] - y[jj]])

\* ln(z ** (ndim - 1)) for z = 2 and ndim = 4, in thousandths
LnStretchFactor == 3 * LnTab[11]

\* the move is accepted when ln(u) < ln(z**(ndim-1)) + lp_new - lp_old for a
\* uniform draw u: never when lp_new is -inf, always when the bound is >= 0
MayAccept(lp_new, lp_old) == ~IsNan(lp_new) /\ lp_new # NInf
MustAccept(lp_new, lp_old) ==
    /\ MayAccept(lp_new, lp_old)
    /\ XLe(Fin(0), XAdd(Fin(LnStretchFactor), XSub(lp_new, lp_old)))

\* one walker's move in an iteration of run_mcmc; its position after the
\* move joins the chain.  phase is "burn" (line 603) or "prod" (line 609),
\* n the iterations of the run, next the stage after the run
McStep(t, phase, n, next) ==
    /\ pc[t] = phase
    /\ UNCHANGED <<scope, ops, specclass>>
    /\ \E y \in {Stretch(loc[t].coords[loc[t].walker],
                           loc[t].coords[Other(loc[t].walker)])} :
       \E P \in {ProbAt(t, y)} :
       LET l == loc[t]
           w == l.walker
           last == (w = NWalkers)
       IN /\ NoteProb(t, P)
          /\ IF P.out.raised
             THEN Raise(t)
             ELSE /\ \E accept \in BOOLEAN :
                        /\ accept => MayAccept(P.out.val, l.clp[w])
                        /\ ~accept => ~MustAccept(P.out.val, l.clp[w])
                        /\ LET pos == IF accept THEN y ELSE l.coords[w]
                               lp == IF accept THEN P.out.val ELSE l.clp[w]
                           IN loc' = [loc EXCEPT
                                 ![t].coords = [@ EXCEPT ![w] = pos],
                                 ![t].clp = [@ EXCEPT ![w] = lp],
                                 ![t].chain = Append(@, [pos |-> pos, lp |-> lp,
                                                         phase |-> phase]),
                                 ![t].walker = IF last THEN 1 ELSE w + 1,
                                 ![t].iter = IF last THEN @ + 1 ELSE @]
                  /\ Goto(t, IF last /\ l.iter + 1 = n THEN next ELSE phase)
                  /\ UNCHANGED result
    /\ UNCHANGED engine

\* a variant of line 605 that keeps the samples
SamplerKeep(chain) == chain

\* line 605: sampler.reset() empties the chain; the walkers stay where the
\* burn-in left them (b.coords)
SamplerReset(chain) == <<>>
McReset(t) ==
    /\ pc[t] = "mcreset"
    /\ UNCHANGED <<scope, ops, specclass>>
    /\ loc' = [loc EXCEPT ![t].chain = SamplerReset(@),
                          ![t].discarded = loc[t].chain,
                          ![t].iter = 0, ![t].walker = 1]
    /\ Goto(t, "prod")
    /\ UNCHANGED <<engine, lastEval, lastProb, result>>

\* np.argmax(lnprobs): the first sample with the highest log-probability
RECURSIVE ArgMax(_, _, _)
ArgMax(chain, i, besti) ==
    IF i > Len(chain) THEN besti
    ELSE ArgMax(chain, i + 1,
                IF XLt(chain[besti].lp, chain[i].lp) THEN i ELSE besti)

\* lines 625-628: the messages printed for a best sample near the bounds of
\* the model grid (logg in tenths)
NearBoundWarnings(mle) ==
    (IF mle[1] < 7000 \/ mle[1] > 38000 THEN {"temperature"} ELSE {})
    \cup (IF mle[2] < 67 \/ mle[2] > 93 THEN {"logg"} ELSE {})

\* lines 619-628: mle, redchi from the flattened chain, the warnings
McStats(t) ==
    /\ pc[t] = "mcstats"
    /\ UNCHANGED <<scope, ops, specclass>>
    /\ LET l == loc[t]
           a == ArgMax(l.chain, 1, 1)
       IN loc' = [loc EXCEPT
                    ![t].mle = l.chain[a].pos,
                    ![t].warnings = NearBoundWarnings(l.chain[a].pos),
                    ![t].redchi = XDiv(XMul(Fin(-2), l.chain[a].lp),
                                       Fin(Len(l.wl) - 3), 1)]
    /\ Goto(t, "fitfl")
    /\ UNCHANGED <<engine, lastEval, lastProb, result>>

(***************************************************************************)
(* fit_spectrum: the best-fit spectrum, the plot, the return                *)
(***************************************************************************)
\* line 649: fit_fl = self.spectrum_sampler(wl, *mle)
FitFl(t) ==
    /\ pc[t] = "fitfl"
    /\ UNCHANGED <<scope, ops, specclass>>
    /\ \E m \in {spectrum_sampler(loc[t].wl, loc[t].mle, cont_fixed, rv,
                                   contmask, specclass)} :
          /\ lastEval' = [lastEval EXCEPT ![t] = EvalRec(t, loc[t].mle, m)]
          /\ IF m.raised
             THEN Raise(t)
             ELSE Goto(t, "plot") /\ UNCHANGED <<loc, result>>
    /\ UNCHANGED <<engine, lastProb>>

\* lines 651-709: the figures are drawn and saved
PlotDone(t) ==
    /\ pc[t] = "plot"
    /\ UNCHANGED <<scope, ops, specclass>>
    /\ Goto(t, "ret")
    /\ UNCHANGED <<engine, loc, lastEval, lastProb, result>>

\* lines 651-709: drawing or saving a figure fails
PlotFails(t) ==
    /\ pc[t] = "plot"
    /\ UNCHANGED <<scope, ops, specclass>>
    /\ Raise(t)
    /\ UNCHANGED <<engine, lastEval, lastProb>>

\* lines 715-718: what fit_spectrum returns
ReturnValue(l, mk) ==
    IF l.mcmc
    THEN [kind |-> "returned", mcmc |-> TRUE, labels |-> l.mle,
          redchi |-> l.redchi, star_rv |-> l.star_rv]
    ELSE [kind |-> "returned", mcmc |-> FALSE, labels |-> l.soln,
          redchi |-> RedChi(l.warm_chi, CountTrue(mk)), star_rv |-> l.star_rv]

\* the locals a returned call leaves for inspection
Frame(l) ==
    [tstr |-> l.tstr, chi |-> l.chi, cool_chi |-> l.cool_chi,
     warm_chi |-> l.warm_chi, cool_soln |-> l.cool_soln,
     warm_soln |-> l.warm_soln, nchain |-> Len(l.chain),
     rvcalls |-> l.rvcalls, resolved |-> l.resolved]

\* lines 711-718: the reset of the frozen mode and the return; the caller
\* has the returned tuple and the warnings printed on the way
Return(t) ==
    /\ pc[t] = "ret"
    /\ UNCHANGED <<scope, ops, specclass>>
    /\ cont_fixed' = FALSE
    /\ rv' = 0
    /\ result' = [result EXCEPT ![t] =
                    [ret |-> ReturnValue(loc[t], mask), frame |-> Frame(loc[t]),
                     warnings |-> loc[t].warnings, kind |-> "returned"]]
    /\ loc' = [loc EXCEPT ![t] = NoLoc]
    /\ Goto(t, "idle")
    /\ UNCHANGED <<contmask, mask, lastEval, lastProb>>

(***************************************************************************)
(* Specifications                                                          *)
(***************************************************************************)
Step(t) ==
    \/ UserSample(t)
    \/ Call(t)
    \/ NormStart(t)
    \/ ContSeed(t)
    \/ ContEval(t)
    \/ ContDone(t)
    \/ NormFinish(t)
    \/ SetFlag(t)
    \/ Template(t)
    \/ GetRv(t)
    \/ StarRv(t)
    \/ MinSeed(t, "coolseed", CoolSeedPrms, "cool")
    \/ MinEval(t, "cool")
    \/ CoolDone(t)
    \/ CoolChi(t)
    \/ MinSeed(t, "warmseed", WarmSeedPrms, "warm")
    \/ MinEval(t, "warm")
    \/ WarmDone(t)
    \/ WarmChi(t)
    \/ SelectBranch(t)
    \/ McInit(t)
    \/ McStart(t)
    \/ McStep(t, "burn", Burn, "mcreset")
    \/ McReset(t)
    \/ McStep(t, "prod", NDraws, "mcstats")
    \/ McStats(t)
    \/ FitFl(t)
    \/ PlotDone(t)
    \/ PlotFails(t)
    \/ Return(t)

Next == \E t \in AllThreads : Step(t)

Spec == Init /\ [][Next]_vars
SpecConc == InitConc /\ [][Next]_vars

(***************************************************************************)
(* Properties                                                              *)
(***************************************************************************)
\* the stages of a fit in which spectrum_sampler is evaluated for the
\* continuum fit, and those in which a solver evaluates lnprob
NormStages == {"contseed", "contfit", "normfin"}
SolverStages == {"coolseed", "cool", "coolchi", "warmseed", "warm", "warmchi",
                 "mcstart", "burn", "prod"}
Running(t) == pc[t] \notin {"idle", "absent"}

\* C1: while a fit runs, each of its spectrum_sampler evaluations sees the
\* cont_fixed value that fit set (False during its normalization, True from
\* its template on) and, in its solver stages and for its best-fit spectrum,
\* the velocity that fit resolved -- never a value another fit wrote.
C1_NoLeakBetweenFits ==
    \A t \in AllThreads :
        Running(t) =>
            /\ lastEval[t].stage \in NormStages => lastEval[t].cont_fixed = FALSE
            /\ lastEval[t].stage \in SolverStages \cup {"template", "fitfl"}
                  => lastEval[t].cont_fixed = TRUE
            /\ lastEval[t].stage \in SolverStages \cup {"fitfl"}
                  => lastEval[t].rv = loc[t].resolved

\* C2: when a fit_spectrum call has ended, by its return or by an error at
\* any stage, the engine's cont_fixed is False and its rv is 0.
C2_ResetWhenFitEnds ==
    \A t \in AllThreads :
        pc[t] = "idle" /\ result[t].kind \in {"returned", "raised"}
            => cont_fixed = FALSE /\ rv = 0

\* a caller whose running fit has evaluated lnprob, and no spectrum since
Probed(t) ==
    Running(t) /\ lastProb[t] # NoProb /\ lastEval[t].stage # "fitfl"

\* C3: an lnprob evaluation on a vector whose log-prior is -inf returns -inf
\* and spectrum_sampler is not evaluated for that vector; on any other vector
\* it returns lnprior plus lnlike.
C3_ShortCircuit ==
    \A t \in AllThreads :
        Probed(t) =>
            LET P == lastProb[t]
                lp == lnprior(P.prms, loc[t].prior_teff)
            IN IF lp = NInf
               THEN /\ P.out = Ok(NInf)
                    /\ ~P.called
                    /\ lastEval[t].prms # P.prms
               ELSE /\ P.called
                    /\ lastEval[t].prms = P.prms
                    /\ P.out =
                         Ok(XAdd(lp, lnlike_of(spectrum_sampler(loc[t].wl, P.prms,
                                                   cont_fixed, rv, contmask,
                                                   specclass),
                                               loc[t].fl, loc[t].ivar, mask).val))

\* a solver tried a vector outside the prior's box
C3_Witness ==
    \E t \in AllThreads :
        /\ Probed(t)
        /\ lnprior(lastProb[t].prms, loc[t].prior_teff) = NInf
        /\ lastEval[t].stage \in SolverStages

\* Teff in [6500, 40000] and logg in [6.5, 9.5]
InPriorBox(prms) ==
    prms[1] >= 6500 /\ prms[1] <= 40000 /\ prms[2] >= 65 /\ prms[2] <= 95

\* C4: lnprior is -inf exactly when Teff or logg is outside its bound; inside
\* the box it is 0 without a temperature prior and the Normal(mu, sigma)
\* log-density of the first parameter with one.
C4_PriorAllOrNothing ==
    \A t \in AllThreads :
        Probed(t) =>
            LET P == lastProb[t]
                prior == loc[t].prior_teff
            IN /\ P.lp = NInf <=> ~InPriorBox(P.prms)
               /\ InPriorBox(P.prms) /\ prior = None => P.lp = Fin(0)
               /\ InPriorBox(P.prms) /\ prior # None =>
                     P.lp = NormalLogPdf(P.prms[1], prior[1], prior[2])

\* with a temperature prior given, a vector whose Teff is inside its bound and
\* whose logg is outside was tried
C4_Witness ==
    \E t \in AllThreads :
        /\ Probed(t)
        /\ loc[t].prior_teff # None
        /\ lastProb[t].prms[1] >= 6500 /\ lastProb[t].prms[1] <= 40000
        /\ lastProb[t].prms[2] > 95

\* every pixel of a spectrum is NaN
AllNaN(a) == \A i \in 1..Len(a) : IsNan(a[i])

\* Teff outside [5500, 40000] or logg outside [6.5, 9.5]
OutsideLabelBounds(teff, logg) ==
    teff < 5500 \/ teff > 40000 \/ logg < 65 \/ logg > 95

\* C5: called with labels outside the emulator's label bounds,
\* synth_spectrum_sampler and spectrum_sampler return an all-NaN spectrum.
C5_DomainFailure ==
    \A t \in AllThreads :
        result[t].kind = "sampled"
        /\ OutsideLabelBounds(result[t].teff, result[t].logg)
            => /\ ~result[t].out.raised
               /\ AllNaN(result[t].out.val)
               /\ AllNaN(synth_spectrum_sampler(result[t].teff, result[t].logg, 0))

\* the sum of ivar_i * (model_i - flux_i)^2 over the pixels the mask selects
RECURSIVE MaskedSum(_, _, _, _, _)
MaskedSum(model, fl, ivar, mk, i) ==
    IF i > Len(fl) THEN Fin(0)
    ELSE IF mk[i]
    THEN XAdd(SqDiff(model[i], fl[i], ivar[i]), MaskedSum(model, fl, ivar, mk, i + 1))
    ELSE MaskedSum(model, fl, ivar, mk, i + 1)

\* C6: lnlike raises nothing; it is -inf when the masked weighted sum of
\* squared residuals is NaN or not finite, and -0.5 times that sum otherwise.
C6_DegeneracyAbsorbed ==
    \A t \in AllThreads :
        Probed(t) /\ lastProb[t].called /\ ~lastProb[t].model.raised =>
            LET P == lastProb[t]
                total == MaskedSum(P.model.val, loc[t].fl, loc[t].ivar, mask, 1)
            IN /\ ~P.ll.raised
               /\ ~IsFinite(total) => P.ll.val = NInf
               /\ IsFinite(total) => P.ll.val = XDiv(XMul(Fin(-1), total), Fin(2), 1)

\* a likelihood evaluation whose sum is NaN
C6_Witness ==
    \E t \in AllThreads :
        /\ Probed(t) /\ lastProb[t].called /\ ~lastProb[t].model.raised
        /\ IsNan(MaskedSum(lastProb[t].model.val, loc[t].fl, loc[t].ivar, mask, 1))

\* C7: the two minimizer runs start at (9000, 8) and (17000, 8); the selected
\* solution is that of the branch with the lower chi-square, tagged with its
\* name, its chi-square no higher than the other's; equal chi-squares select
\* the warm branch.
C7_BranchSelection ==
    \A t \in AllThreads :
        LET l == loc[t]
        IN /\ pc[t] = "cool" /\ l.nfev = 0 => l.best = <<9000, 80, CoefOne, 0>>
           /\ pc[t] = "warm" /\ l.nfev = 0 => l.best = <<17000, 80, CoefOne, 0>>
           /\ Running(t) /\ pc[t] \in {"mcinit", "fitfl"} /\ l.chain = <<>> =>
                /\ l.mle = l.soln
                /\ l.tstr \in {"cool", "warm"}
                /\ l.tstr = "cool" =>
                      /\ l.soln = l.cool_soln /\ l.chi = l.cool_chi
                      /\ XLt(l.cool_chi, l.warm_chi)
                /\ l.tstr = "warm" =>
                      /\ l.soln = l.warm_soln /\ l.chi = l.warm_chi
                      /\ XLe(l.warm_chi, l.cool_chi)
                /\ l.cool_chi = l.warm_chi => l.tstr = "warm"

\* the two branches ended with the same chi-square and the warm one is selected
C7_Witness ==
    \E t \in AllThreads :
        /\ pc[t] \in {"mcinit", "fitfl"}
        /\ loc[t].cool_chi = loc[t].warm_chi
        /\ loc[t].tstr = "warm"

\* C8: without the sampler, the reduced chi-square fit_spectrum returns is the
\* selected branch's chi-square divided by the number of line pixels.
C8_RedchiOfSelectedBranch ==
    \A t \in AllThreads :
        pc[t] = "idle" /\ result[t].kind = "returned" /\ ~result[t].ret.mcmc =>
            result[t].ret.redchi = XDiv(result[t].frame.chi, Fin(CountTrue(mask)), 1)

\* the stages of a fit before get_rv is called, and up to the template
BeforeRv == {"norm", "contseed", "contfit", "normfin", "setflag", "template",
             "getrv"}

\* C9: within one fit the normalization is complete when the velocity is
\* resolved; get_rv is called once; each solver evaluation comes after that
\* call, with cont_fixed True and the resolved velocity, and the engine's rv
\* keeps that velocity until the fit ends.
C9_StageOrder ==
    \A t \in AllThreads :
        LET l == loc[t]
        IN /\ Running(t) =>
                /\ pc[t] \in BeforeRv => l.rvcalls = 0
                /\ pc[t] \notin BeforeRv => l.rvcalls = 1 /\ rv = l.resolved
                /\ pc[t] = "getrv" \/ l.rvcalls > 0 => l.normalized
                /\ lastEval[t].stage \in SolverStages =>
                      /\ l.rvcalls = 1
                      /\ lastEval[t].cont_fixed = TRUE
                      /\ lastEval[t].rv = l.resolved
           /\ pc[t] = "idle" /\ result[t].kind = "returned" =>
                /\ result[t].frame.rvcalls = 1
                /\ result[t].ret.star_rv = result[t].frame.resolved

\* the ensemble sampler evaluates a move of the production run with a
\* non-zero resolved velocity
C9_Witness ==
    \E t \in AllThreads :
        /\ pc[t] = "prod"
        /\ lastEval[t].stage = "prod"
        /\ loc[t].resolved # 0

\* the stages of a sampled fit after the production run
AfterProd == {"mcstats", "fitfl", "plot", "ret"}

\* C10: after the production run the chain holds nwalkers * ndraws samples,
\* all of the production run; the burn-in samples are the ones reset
\* discarded; production starts where the last burn-in iteration left each
\* walker.
C10_SamplerPhases ==
    \A t \in AllThreads :
        LET l == loc[t]
        IN Running(t) /\ l.mcmc =>
             /\ pc[t] \in AfterProd =>
                   /\ Len(l.chain) = NWalkers * NDraws
                   /\ \A i \in 1..Len(l.chain) : l.chain[i].phase = "prod"
             /\ pc[t] \in AfterProd \cup {"prod"} =>
                   /\ Len(l.discarded) = NWalkers * Burn
                   /\ \A i \in 1..Len(l.discarded) : l.discarded[i].phase = "burn"
             /\ pc[t] = "prod" /\ l.iter = 0 /\ l.walker = 1 =>
                   \A w \in 1..NWalkers :
                       l.coords[w] = l.discarded[NWalkers * (Burn - 1) + w].pos

\* a sampled fit has finished its production run
C10_Witness ==
    \E t \in AllThreads :
        pc[t] = "mcstats" /\ loc[t].mcmc /\ loc[t].chain # <<>>

\* a best estimate near the declared bounds: Teff < 7000 or > 38000,
\* logg < 6.7 or > 9.3
NearBound(labels) ==
    labels[1] < 7000 \/ labels[1] > 38000 \/ labels[2] < 67 \/ labels[2] > 93

\* C11: a fit that returns a best estimate near the declared bounds has
\* surfaced a warning to its caller, without the sampler (mcmc False) as
\* well as with it.
C11_NearBoundWarns ==
    \A t \in AllThreads :
        pc[t] = "idle" /\ result[t].kind = "returned"
        /\ NearBound(result[t].ret.labels)
            => result[t].warnings # {}

\* C11, the sampler's path alone: a sampled fit that returns a best sample
\* near the bounds has printed the warning of each label that is near.
C11_SampledFitWarns ==
    \A t \in AllThreads :
        pc[t] = "idle" /\ result[t].kind = "returned" /\ result[t].ret.mcmc
            => /\ NearBound(result[t].ret.labels) <=> result[t].warnings # {}
               /\ "temperature" \in result[t].warnings
                     <=> (result[t].ret.labels[1] < 7000
                          \/ result[t].ret.labels[1] > 38000)

\* the stages of a fit up to the first evaluation of the continuum fit
UpToFirstEval == {"norm", "contseed"}

\* C12: on an engine asked for a class other than 'DA', no emulator
\* evaluation is ever made for a fit: 'DB' is refused by the constructor, and
\* with any other name or a '+'-joined class the first spectrum_sampler call
\* of the continuum fit raises, so that no fit goes past it and none returns.
C12_MisconfigurationFailsFast ==
    \A t \in AllThreads :
        specclass # <<"DA">> =>
            /\ pc[t] \in {"absent", "idle"} \cup UpToFirstEval
            /\ lastEval[t].out.raised
            /\ lastProb[t] = NoProb
            /\ result[t].kind # "returned"
            /\ result[t].kind = "raised" => result[t].stage = "contseed"
            /\ result[t].kind = "sampled" => result[t].out.raised

\* a fit on an engine of an unknown class has raised at the first evaluation
\* of its continuum fit
C12_Witness ==
    \E t \in AllThreads :
        /\ specclass # <<"DA">>
        /\ pc[t] = "idle"
        /\ result[t].kind = "raised"
        /\ result[t].stage = "contseed"
        /\ lastEval[t].stage = "contseed"

\* C13: in every fit, also one that follows a fit ended by an error, the
\* template handed to get_rv is the spectrum of the continuum fit's (teff,
\* logg) at radial velocity 0.
C13_TemplateAtRestVelocity ==
    \A t \in AllThreads :
        Running(t) /\ lastEval[t].stage = "template" =>
            /\ lastEval[t].prms = SubSeq(loc[t].init_soln, 1, 2)
            /\ lastEval[t].rv = 0

\* the lowest and the highest window edge of the lines, in hundredths of an
\* Angstrom
LowestEdge(lines) ==
    CHOOSE e \in {centroid_dict[lines[i]] - distance_dict[lines[i]] : i \in 1..Len(lines)} :
        \A i \in 1..Len(lines) : e <= centroid_dict[lines[i]] - distance_dict[lines[i]]
HighestEdge(lines) ==
    CHOOSE e \in {centroid_dict[lines[i]] + distance_dict[lines[i]] : i \in 1..Len(lines)} :
        \A i \in 1..Len(lines) : e >= centroid_dict[lines[i]] + distance_dict[lines[i]]

\* the wavelengths normalize_DA works on: the observed ones inside the
\* emulator's domain
DomainWl(obs) ==
    PySlice(Obs[obs].wl, DomainLo(Obs[obs].wl), DomainHi(Obs[obs].wl))

\* the pixels from 5 before the lowest window edge (or from the first pixel)
\* to 5 after the highest window edge
OutermostWindows(wl, lines) ==
    PySlice(wl, Max2(BisectCenti(wl, LowestEdge(lines)) - CropMargin, 0),
            BisectCenti(wl, HighestEdge(lines)) + CropMargin)

\* C14: with crop True, whatever lines are named and in whatever order, the
\* wavelengths normalize_DA returns run from 5 pixels before the lowest
\* window edge to 5 pixels after the highest window edge, also when the lowest
\* edge is within 5 pixels of the start of the array.
C14_CropKeepsOutermostWindows ==
    \A t \in AllThreads :
        Running(t) /\ loc[t].normalized /\ loc[t].crop =>
            loc[t].wl = OutermostWindows(DomainWl(loc[t].obs), loc[t].lines)

\* C15: once normalize_DA has returned, with or without crop, the continuum
\* mask and the line mask are as long as the returned wavelength, flux and
\* inverse-variance arrays, and each likelihood evaluation of the fit indexes
\* a model spectrum of that length with the line mask.
C15_MaskLength ==
    \A t \in AllThreads :
        Running(t) /\ loc[t].normalized =>
            /\ Len(loc[t].fl) = Len(loc[t].wl)
            /\ Len(loc[t].ivar) = Len(loc[t].wl)
            /\ Len(contmask) = Len(loc[t].wl)
            /\ Len(mask) = Len(loc[t].wl)
            /\ Probed(t) /\ lastProb[t].called /\ ~lastProb[t].model.raised =>
                  /\ Len(lastProb[t].model.val) = Len(mask)
                  /\ ~lastProb[t].ll.raised

\* a likelihood evaluation of a fit whose spectrum the crop has shortened
C15_Witness ==
    \E t \in AllThreads :
        /\ Probed(t) /\ lastProb[t].called /\ ~lastProb[t].model.raised
        /\ loc[t].normalized /\ loc[t].crop
        /\ Len(loc[t].wl) < Len(DomainWl(loc[t].obs))
        /\ Len(mask) = Len(loc[t].wl)

\* a likelihood evaluation of a fit normalized without the crop
C15_WitnessNoCrop ==
    \E t \in AllThreads :
        /\ Probed(t) /\ lastProb[t].called /\ ~lastProb[t].model.raised
        /\ loc[t].normalized /\ ~loc[t].crop
        /\ Len(mask) = Len(DomainWl(loc[t].obs))

\* C16: each spectrum_sampler evaluation a solver makes through lnprob (the
\* two minimizers, the sampler's burn-in and production) has Teff in
\* [5500, 40000] and logg in [6.5, 9.5]: a vector inside the prior's box is
\* inside the label scaler's bounds, and for any other vector lnprob returns
\* before the emulator is evaluated.
C16_SolverQueriesInDomain ==
    \A t \in AllThreads :
        /\ Running(t) /\ lastEval[t].stage \in SolverStages =>
              /\ InPriorBox(lastEval[t].prms)
              /\ ~OutsideLabelBounds(lastEval[t].prms[1], lastEval[t].prms[2])
        /\ Probed(t) =>
              /\ lastProb[t].called =>
                    ~OutsideLabelBounds(lastProb[t].prms[1], lastProb[t].prms[2])
              /\ OutsideLabelBounds(lastProb[t].prms[1], lastProb[t].prms[2]) =>
                    /\ ~lastProb[t].called
                    /\ lastEval[t].prms # lastProb[t].prms

\* a solver tried a vector outside the label scaler's bounds and the
\* emulator was not evaluated for it
C16_Witness ==
    \E t \in AllThreads :
        /\ Probed(t)
        /\ pc[t] \in SolverStages
        /\ OutsideLabelBounds(lastProb[t].prms[1], lastProb[t].prms[2])
        /\ ~lastProb[t].called
        /\ lastEval[t].stage \in SolverStages

====
